---------------------------- MODULE Spec2Model ----------------------------
(***************************************************************************)
(* Relationship graph, tree/forest extraction and path discovery of        *)
(* django_qbe (src/django_qbe/utils.py), with the autocomplete caller of   *)
(* src/django_qbe/views.py.                                                *)
(*                                                                         *)
(* Python values are represented as follows.                               *)
(*   - an entity id "%s.%s" % (name, model) is the pair <<name, model>>;   *)
(*   - a list is a sequence, a tuple is a tuple, a dict is a function      *)
(*     whose DOMAIN is its key set (iteration order of a dict is           *)
(*     arbitrary in the Python 2 this code runs on, so every loop over a   *)
(*     dict is a nondeterministic choice of order);                        *)
(*   - a raised exception is the name of its class in a "raised" field,    *)
(*     NoError when the call returned normally.                            *)
(***************************************************************************)
EXTENDS Integers, Sequences, FiniteSets, TLC

VARIABLES
    app_models,   \* the model classes django's get_models() returns (input)
    directed,     \* the directed argument of qbe_graph
    pc,           \* position of the running call
    k,            \* qbe_graph: the app label the outer loop is at, "" before it
    todo,         \* qbe_graph: models of models.items() still to iterate
    graph,        \* qbe_graph: the dict under construction / the built Graph
    root,         \* qbe_tree: the root argument
    nodes,        \* qbe_tree: the working list of required nodes
    cnodes,       \* qbe_tree: copy(nodes) taken on entry
    to_visit,     \* qbe_tree: the deque, right end is the end of the sequence
    visited,      \* qbe_tree: the visited set
    tree,         \* qbe_tree / remove_leafs: the dict being built and pruned
    leafs,        \* remove_leafs: the current leaf list
    iterations,   \* remove_leafs: the iteration counter
    required,     \* qbe_forest: its nodes argument
    roots,        \* qbe_forest: keys of graph.items() still to iterate
    forest,       \* qbe_forest: the forest list
    result        \* what the last finished call returned or raised

vars == <<app_models, directed, pc, k, todo, graph, root, nodes, cnodes,
          to_visit, visited, tree, leafs, iterations, required, roots,
          forest, result>>

-----------------------------------------------------------------------------
(* Bounds of the explored input space *)

\* largest number of relation fields of a generated catalogue
MaxFields == 4

\* largest number of required nodes handed to qbe_tree and qbe_forest
MaxRequired == 3

\* largest number of selected models handed to autocomplete_graph
MaxSelected == 2

-----------------------------------------------------------------------------
(* Python helpers *)

NoError == "NoError"

\* Python None, for an entity id and for a field name: both are falsy
NoneId == << >>
NoneField == ""

Range(s) == { s[i] : i \in 1..Len(s) }

\* x in lst
Contains(lst, x) == \E i \in 1..Len(lst) : lst[i] = x

\* lst.remove(x) for an x that is in lst: drops the first occurrence
ListRemove(lst, x) ==
    LET i == CHOOSE n \in 1..Len(lst) :
                 lst[n] = x /\ \A j \in 1..(n - 1) : lst[j] # x
    IN  SubSeq(lst, 1, i - 1) \o SubSeq(lst, i + 1, Len(lst))

\* if x not in lst: lst.append(x)
AppendNew(lst, x) == IF Contains(lst, x) THEN lst ELSE Append(lst, x)

\* the empty dict
EmptyDict == [x \in {} |-> << >>]

\* d[key] = v
DictSet(d, key, v) ==
    [x \in DOMAIN d \cup {key} |-> IF x = key THEN v ELSE d[x]]

\* del d[key]
DictDel(d, key) == [x \in DOMAIN d \ {key} |-> d[x]]

\* a ^ b on non-negative integers (bitwise exclusive or)
RECURSIVE BitXor(_, _)
BitXor(a, b) ==
    IF a = 0 THEN b
    ELSE IF b = 0 THEN a
    ELSE (((a % 2) + (b % 2)) % 2) + (2 * BitXor(a \div 2, b \div 2))

-----------------------------------------------------------------------------
(* Input: model classes as django describes them *)

\* a model class, as far as qbe_models reads it: app is
\* _meta.app_label.title(), module is __module__.split(".")[-2].capitalize(),
\* name is __name__ and pk is _meta.pk.name
Class(app, module, name, pk) ==
    [app |-> app, module |-> module, name |-> name, pk |-> pk]

\* ForeignKey / OneToOneField: field.rel has no attribute through
FK(name, to) == [name |-> name, type |-> "ForeignKey", rel |-> [to |-> to]]
O2O(name, to) == [name |-> name, type |-> "OneToOneField", rel |-> [to |-> to]]

\* ManyToManyField: field.rel.through is the intermediate model class
M2M(name, to, through) ==
    [name |-> name, type |-> "ManyToManyField",
     rel |-> [to |-> to, through |-> through]]

AppModel(cls, fields, many_to_many) ==
    [cls |-> cls, fields |-> fields, many_to_many |-> many_to_many]

-----------------------------------------------------------------------------
(* qbe_models: the per-model relation lists qbe_graph reads *)

get_target(field) ==
    LET target == [name  |-> field.rel.to.module,
                   model |-> field.rel.to.name,
                   field |-> field.rel.to.pk]
    IN  IF "through" \in DOMAIN field.rel
        THEN [name    |-> target.name,
              model   |-> target.model,
              field   |-> target.field,
              through |-> [name  |-> field.rel.through.module,
                           model |-> field.rel.through.name,
                           field |-> field.rel.through.pk]]
        ELSE target

get_target_relation(field) ==
    [target |-> get_target(field), type |-> field.type,
     source |-> field.name, arrows |-> ""]

\* model['relations'] after add_relation(model, field)
add_relation(relations, field) ==
    AppendNew(relations, get_target_relation(field))

RECURSIVE add_relations(_, _, _)
add_relations(relations, fields, i) ==
    IF i > Len(fields) THEN relations
    ELSE add_relations(add_relation(relations, fields[i]), fields, i + 1)

\* graphs: the key <<app title, model name>> stands for graphs[app][name];
\* only the 'relations' entry of a model is read by qbe_graph
qbe_models(classes) ==
    [key \in { <<m.cls.app, m.cls.name>> : m \in classes } |->
        LET m == CHOOSE c \in classes : <<c.cls.app, c.cls.name>> = key
        IN  [name      |-> m.cls.name,
             relations |-> add_relations(
                               add_relations(<< >>, m.fields, 1),
                               m.many_to_many, 1)]]

-----------------------------------------------------------------------------
(* qbe_graph *)

\* graph_relation with the through branch left out: the edge always names the
\* logical target
graph_relation_direct(g, key, relation, isDirected) ==
    LET source == relation.source
        target == relation.target
        model  == <<target.name, target.model>>
        value  == <<source, model, target.field>>
        g1 == DictSet(g, key, AppendNew(g[key], value))
        g2 == IF model \notin DOMAIN g1 THEN DictSet(g1, model, << >>) ELSE g1
        target_value == <<target.field, key, source>>
    IN  IF isDirected THEN g1
        ELSE DictSet(g2, model, AppendNew(g2[model], target_value))

\* one pass of the body of "for relation in w['relations']"
graph_relation(g, key, relation, isDirected) ==
    LET source == relation.source
        target == relation.target
        hasThrough == "through" \in DOMAIN target
        model  == IF hasThrough
                  THEN <<target.through.name, target.through.model>>
                  ELSE <<target.name, target.model>>
        value  == IF hasThrough
                  THEN <<source, model, target.through.field>>
                  ELSE <<source, model, target.field>>
        g1 == DictSet(g, key, AppendNew(g[key], value))
        g2 == IF model \notin DOMAIN g1 THEN DictSet(g1, model, << >>) ELSE g1
        target_value == <<target.field, key, source>>
    IN  IF isDirected THEN g1
        ELSE DictSet(g2, model, AppendNew(g2[model], target_value))

RECURSIVE graph_relations(_, _, _, _, _)
graph_relations(g, key, relations, i, isDirected) ==
    IF i > Len(relations) THEN g
    ELSE graph_relations(graph_relation(g, key, relations[i], isDirected),
                         key, relations, i + 1, isDirected)

\* one pass of the body of "for l, w in v.items()"
graph_model(g, key, w, isDirected) ==
    LET g0 == IF key \notin DOMAIN g THEN DictSet(g, key, << >>) ELSE g
        g1 == graph_relations(g0, key, w.relations, 1, isDirected)
    IN  IF g1[key] = << >> THEN DictDel(g1, key) ELSE g1

\* the keys "for k, v in models.items(): for l, w in v.items()" can yield
\* next: any model of the app being iterated, or of any app once that one is
\* exhausted
next_keys(app, left) ==
    { x \in left : (\E y \in left : y[1] = app) => x[1] = app }

\* qbe_graph(admin_site, directed) run to its return, from the graph g built
\* so far, the app being iterated and the keys left: the graphs it can
\* return, one for each order the two items() calls can yield
RECURSIVE qbe_graph(_, _, _, _, _)
qbe_graph(models, isDirected, g, app, left) ==
    IF left = {} THEN {g}
    ELSE UNION { qbe_graph(models, isDirected,
                           graph_model(g, key, models[key], isDirected),
                           key[1], left \ {key}) :
                 key \in next_keys(app, left) }

-----------------------------------------------------------------------------
(* qbe_tree and remove_leafs *)

\* truth value of an entity id and of a field name (None and empty are falsy)
TruthyId(x) == x # NoneId
TruthyField(x) == x # NoneField

\* tree_record without the entry under v: the edge is recorded under the
\* parent only
tree_record_one_way(t, parent, parent_edge, v, v_edge) ==
    LET t1 == IF parent \notin DOMAIN t THEN DictSet(t, parent, << >>) ELSE t
        t2 == DictSet(t1, parent,
                      AppendNew(t1[parent], <<parent_edge, v, v_edge>>))
    IN  IF v \notin DOMAIN t2 THEN DictSet(t2, v, << >>) ELSE t2

\* the "Preorder process" block: both directions of the traversed edge
tree_record(t, parent, parent_edge, v, v_edge) ==
    LET t1 == IF parent \notin DOMAIN t THEN DictSet(t, parent, << >>) ELSE t
        t2 == DictSet(t1, parent,
                      AppendNew(t1[parent], <<parent_edge, v, v_edge>>))
        t3 == IF v \notin DOMAIN t2 THEN DictSet(t2, v, << >>) ELSE t2
    IN  DictSet(t3, v, AppendNew(t3[v], <<v_edge, parent, parent_edge>>))

\* tree_step without the "v not in visited" test: a node is expanded every
\* time it is popped
tree_step_revisit(g, st) ==
    LET last == Len(st.to_visit)
        parent      == st.to_visit[last][1]
        parent_edge == st.to_visit[last][2]
        v           == st.to_visit[last][3]
        v_edge      == st.to_visit[last][4]
        popped == SubSeq(st.to_visit, 1, last - 1)
        pruned == IF Contains(st.nodes, v) THEN ListRemove(st.nodes, v)
                  ELSE st.nodes
    IN  IF v \notin DOMAIN g
        THEN [st EXCEPT !.to_visit = popped, !.nodes = pruned,
                        !.raised = "KeyError"]
        ELSE LET node == g[v] IN
             IF Len(node) > 1
             THEN [nodes    |-> pruned,
                   to_visit |-> popped \o
                                [i \in 1..Len(node) |->
                                    <<v, node[i][1], node[i][2], node[i][3]>>],
                   visited  |-> st.visited \cup {v},
                   tree     |-> IF /\ TruthyId(parent)
                                   /\ TruthyField(parent_edge)
                                   /\ TruthyId(v)
                                   /\ TruthyField(v_edge)
                                THEN tree_record(st.tree, parent, parent_edge,
                                                 v, v_edge)
                                ELSE st.tree,
                   raised   |-> st.raised]
             ELSE [st EXCEPT !.to_visit = popped, !.nodes = pruned]

\* one pass of the body of "while len(to_visit) != 0 and nodes" on the locals
\* st = [nodes, to_visit, visited, tree, raised]
tree_step(g, st) ==
    LET last == Len(st.to_visit)
        parent      == st.to_visit[last][1]
        parent_edge == st.to_visit[last][2]
        v           == st.to_visit[last][3]
        v_edge      == st.to_visit[last][4]
        popped == SubSeq(st.to_visit, 1, last - 1)
        pruned == IF Contains(st.nodes, v) THEN ListRemove(st.nodes, v)
                  ELSE st.nodes
    IN  IF v \notin DOMAIN g
        THEN [st EXCEPT !.to_visit = popped, !.nodes = pruned,
                        !.raised = "KeyError"]
        ELSE LET node == g[v] IN
             IF v \notin st.visited /\ Len(node) > 1
             THEN [nodes    |-> pruned,
                   to_visit |-> popped \o
                                [i \in 1..Len(node) |->
                                    <<v, node[i][1], node[i][2], node[i][3]>>],
                   visited  |-> st.visited \cup {v},
                   tree     |-> IF /\ TruthyId(parent)
                                   /\ TruthyField(parent_edge)
                                   /\ TruthyId(v)
                                   /\ TruthyField(v_edge)
                                THEN tree_record(st.tree, parent, parent_edge,
                                                 v, v_edge)
                                ELSE st.tree,
                   raised   |-> st.raised]
             ELSE [st EXCEPT !.to_visit = popped, !.nodes = pruned]

\* the while condition of qbe_tree
tree_continues(st) == Len(st.to_visit) # 0 /\ Len(st.nodes) # 0

\* the locals of qbe_tree when the while loop is entered
tree_entry(start, nodeList) ==
    [nodes    |-> nodeList,
     to_visit |-> << <<NoneId, NoneField, start, NoneField>> >>,
     visited  |-> {},
     tree     |-> EmptyDict,
     raised   |-> NoError]

\* the whole while loop
RECURSIVE tree_loop(_, _)
tree_loop(g, st) ==
    IF st.raised = NoError /\ tree_continues(st)
    THEN tree_loop(g, tree_step(g, st))
    ELSE st

\* get_leafs, as the set of the listed nodes: tree.items() lists them in
\* an arbitrary order
get_leafs(t, nodeList) ==
    { node \in DOMAIN t : Len(t[node]) < 2 /\ ~Contains(nodeList, node) }

\* "for ... in edges: if leaf == neighbor: tree[node].remove(edge)": the
\* iterator keeps its index while the list shrinks under it
RECURSIVE remove_edges_to(_, _, _)
remove_edges_to(edges, i, leaf) ==
    IF i > Len(edges) THEN edges
    ELSE IF edges[i][2] = leaf
         THEN remove_edges_to(ListRemove(edges, edges[i]), i + 1, leaf)
         ELSE remove_edges_to(edges, i + 1, leaf)

\* delete_edge_leafs that only deletes the leaf and leaves the edge lists of
\* its neighbours alone
delete_leaf_only(t, leaf) == DictDel(t, leaf)

delete_edge_leafs(t, leaf) ==
    DictDel([node \in DOMAIN t |-> remove_edges_to(t[node], 1, leaf)], leaf)

\* "for node in leafs: if node in tree: delete_edge_leafs(tree, node)"
RECURSIVE remove_leafs_pass(_, _, _)
remove_leafs_pass(t, leafList, i) ==
    IF i > Len(leafList) THEN t
    ELSE remove_leafs_pass(
             IF leafList[i] \in DOMAIN t
             THEN delete_edge_leafs(t, leafList[i]) ELSE t,
             leafList, i + 1)

\* every order in which a dict can list the elements of S
RECURSIVE Orders(_)
Orders(S) ==
    IF S = {} THEN { << >> }
    ELSE UNION { { <<x>> \o o : o \in Orders(S \ {x}) } : x \in S }

\* the while condition of remove_leafs
leafs_continue(t, leafList, count) ==
    Len(leafList) # 0 \/ count > BitXor(Cardinality(DOMAIN t), 2)

\* the trees remove_leafs(tree, nodes) can leave, one per order in which
\* get_leafs lists the leaves of each round
RECURSIVE remove_leafs_from(_, _, _, _)
remove_leafs_from(t, nodeList, leafList, count) ==
    IF leafs_continue(t, leafList, count)
    THEN LET t1 == remove_leafs_pass(t, leafList, 1)
         IN  UNION { remove_leafs_from(t1, nodeList, l, count + 0) :
                       l \in Orders(get_leafs(t1, nodeList)) }
    ELSE {t}

remove_leafs(t, nodeList) ==
    UNION { remove_leafs_from(t, nodeList, l, 0) :
              l \in Orders(get_leafs(t, nodeList)) }

\* qbe_tree(graph, nodes, root) for a given root: the possible outcomes
qbe_tree(g, nodeList, start) ==
    LET st == tree_loop(g, tree_entry(start, nodeList))
    IN  IF st.raised # NoError
        THEN { [raised |-> st.raised, tree |-> EmptyDict, are_all |-> FALSE] }
        ELSE { [raised |-> NoError, tree |-> t, are_all |-> Len(st.nodes) = 0] :
                 t \in remove_leafs(st.tree, nodeList) }

-----------------------------------------------------------------------------
(* qbe_forest *)

\* forest_add without the are_all test: every new tree is kept
forest_add_any(trees, t, are_all) ==
    IF ~Contains(trees, t) THEN Append(trees, t) ELSE trees

\* "if are_all and tree not in forest: forest.append(tree)"
forest_add(trees, t, are_all) ==
    IF are_all /\ ~Contains(trees, t) THEN Append(trees, t) ELSE trees

\* sorted(forest, cmp=lambda x, y: cmp(len(x), len(y))): stable, by key count
RECURSIVE insert_by_len(_, _)
insert_by_len(sortedList, t) ==
    IF sortedList = << >> THEN <<t>>
    ELSE LET lastOne == sortedList[Len(sortedList)]
         IN  IF Cardinality(DOMAIN lastOne) <= Cardinality(DOMAIN t)
             THEN Append(sortedList, t)
             ELSE Append(insert_by_len(
                             SubSeq(sortedList, 1, Len(sortedList) - 1), t),
                         lastOne)

RECURSIVE sorted_by_len(_, _)
sorted_by_len(lst, i) ==
    IF i = 0 THEN << >>
    ELSE insert_by_len(sorted_by_len(lst, i - 1), lst[i])

-----------------------------------------------------------------------------
(* find_all_paths and autocomplete_graph *)

\* graph[start].items(): the values of the Graph are the lists qbe_graph
\* builds, and a list has no attribute items
items(lst) == [raised |-> "AttributeError", value |-> << >>]

\* find_all_paths(graph, start, end, path); paths_from is its for loop over
\* the (source_field, (node, target_field)) pairs, from the i-th on
RECURSIVE find_all_paths(_, _, _, _), paths_from(_, _, _, _, _, _)
find_all_paths(g, start, end, path0) ==
    LET path == path0 \o <<start>>
    IN  IF start = end THEN [raised |-> NoError, value |-> <<path>>]
        ELSE IF start \notin DOMAIN g THEN [raised |-> NoError, value |-> << >>]
        ELSE LET pairs == items(g[start])
             IN  IF pairs.raised # NoError
                 THEN [raised |-> pairs.raised, value |-> << >>]
                 ELSE paths_from(g, pairs.value, 1, end, path, << >>)

paths_from(g, pairs, i, end, path, paths) ==
    IF i > Len(pairs) THEN [raised |-> NoError, value |-> paths]
    ELSE LET node == pairs[i][2][1]
         IN  IF ~Contains(path, node)
             THEN LET newpaths == find_all_paths(g, node, end, path)
                  IN  IF newpaths.raised # NoError THEN newpaths
                      ELSE paths_from(g, pairs, i + 1, end, path,
                                      paths \o newpaths.value)
             ELSE paths_from(g, pairs, i + 1, end, path, paths)

\* combinations(lst, 2), as index pairs in the order itertools yields them
RECURSIVE combinations_from(_, _, _)
combinations_from(n, i, j) ==
    IF i >= n THEN << >>
    ELSE IF j > n THEN combinations_from(n, i + 1, i + 2)
    ELSE << <<i, j>> >> \o combinations_from(n, i, j + 1)

\* "for model in current_models: path.remove(model)", from the i-th model
RECURSIVE remove_models(_, _, _)
remove_models(path, current_models, i) ==
    IF i > Len(current_models) THEN [raised |-> NoError, value |-> path]
    ELSE IF ~Contains(path, current_models[i])
         THEN [raised |-> "ValueError", value |-> path]
         ELSE remove_models(ListRemove(path, current_models[i]),
                            current_models, i + 1)

\* "for path in paths", from the i-th path
RECURSIVE keep_paths(_, _, _, _)
keep_paths(paths, i, current_models, valid_paths) ==
    IF i > Len(paths) THEN [raised |-> NoError, value |-> valid_paths]
    ELSE IF \A x \in Range(current_models) : Contains(paths[i], x)
         THEN LET stripped == remove_models(paths[i], current_models, 1)
              IN  IF stripped.raised # NoError
                  THEN [raised |-> stripped.raised, value |-> valid_paths]
                  ELSE keep_paths(paths, i + 1, current_models,
                                  AppendNew(valid_paths, stripped.value))
         ELSE keep_paths(paths, i + 1, current_models, valid_paths)

\* "for c, d in combinations(current_models, 2)", from the i-th pair
RECURSIVE autocomplete_pairs(_, _, _, _, _)
autocomplete_pairs(g, current_models, pairs, i, valid_paths) ==
    IF i > Len(pairs) THEN [raised |-> NoError, value |-> valid_paths]
    ELSE LET c == current_models[pairs[i][1]]
             d == current_models[pairs[i][2]]
             paths == find_all_paths(g, c, d, << >>)
         IN  IF paths.raised # NoError THEN paths
             ELSE LET kept == keep_paths(paths.value, 1, current_models,
                                         valid_paths)
                  IN  IF kept.raised # NoError THEN kept
                      ELSE autocomplete_pairs(g, current_models, pairs, i + 1,
                                              kept.value)

\* sorted(valid_paths, cmp=lambda x, y: cmp(len(x), len(y))): stable
RECURSIVE insert_path(_, _)
insert_path(sortedList, path) ==
    IF sortedList = << >> THEN <<path>>
    ELSE LET lastOne == sortedList[Len(sortedList)]
         IN  IF Len(lastOne) <= Len(path) THEN Append(sortedList, path)
             ELSE Append(insert_path(
                             SubSeq(sortedList, 1, Len(sortedList) - 1), path),
                         lastOne)

RECURSIVE sorted_paths(_, _)
sorted_paths(lst, i) ==
    IF i = 0 THEN << >>
    ELSE insert_path(sorted_paths(lst, i - 1), lst[i])

\* Python's None and a Python list, as values of one variable
PyNone == [none |-> TRUE, list |-> << >>]
PyList(lst) == [none |-> FALSE, list |-> lst]

\* autocomplete_graph after "graph = qbe_graph(...)" returned g: lines 281-290
autocomplete_paths(g, current_models) ==
    LET found == autocomplete_pairs(
                     g, current_models,
                     combinations_from(Len(current_models), 1, 2), 1, << >>)
    IN  IF found.raised # NoError
        THEN [raised |-> found.raised, value |-> PyNone]
        ELSE [raised |-> NoError,
              value  |-> PyList(sorted_paths(found.value, Len(found.value)))]

\* autocomplete_graph(admin_site, current_models, directed): the outcomes it
\* can have, one for each graph its own call of qbe_graph can build
autocomplete_graph(models, current_models, isDirected) ==
    IF Len(current_models) < 2 THEN {[raised |-> NoError, value |-> PyNone]}
    ELSE { autocomplete_paths(g, current_models) :
             g \in qbe_graph(models, isDirected, EmptyDict, "",
                             DOMAIN models) }

\* the name "": what splitting an empty POST value yields
EmptyName == <<"">>

\* value.split(","), a POST value being held as the list of the names it
\* joins with commas: the empty string splits into [""]
split(value) == IF value = << >> THEN <<EmptyName>> ELSE value

\* simplejson.dumps(nodes): None is written as null, a list of paths as the
\* JSON array of its paths in the same order
dumps(obj) == IF obj.none THEN "null" ELSE obj.list

-----------------------------------------------------------------------------
(* The catalogues explored *)

\* the order scenario: OrderItem -> Order, OrderItem -> Product,
\* Order -> Customer
Customer  == Class("Shop", "Shop", "Customer", "id")
Product   == Class("Shop", "Shop", "Product", "id")
Order     == Class("Shop", "Shop", "Order", "id")
OrderItem == Class("Shop", "Shop", "OrderItem", "id")

Shop ==
    { AppModel(Customer, << >>, << >>),
      AppModel(Product, << >>, << >>),
      AppModel(Order, << FK("customer", Customer) >>, << >>),
      AppModel(OrderItem, << FK("order", Order), FK("product", Product) >>,
               << >>) }

\* the many-to-many scenario: Student.courses -> Course through Enrollment,
\* Course keyed by a field of its own, Enrollment by the default "id"
Student    == Class("School", "School", "Student", "id")
Course     == Class("School", "School", "Course", "code")
Enrollment == Class("School", "School", "Enrollment", "id")

School ==
    { AppModel(Student, << >>, << M2M("courses", Course, Enrollment) >>),
      AppModel(Course, << >>, << >>),
      AppModel(Enrollment,
               << FK("student", Student), FK("course", Course) >>, << >>) }

\* generated catalogues: four models of one app and every choice of at most
\* MaxFields relation fields among the candidates, in declaration order:
\* forward foreign keys (one of them one-to-one) that can form a path, a
\* cycle, a triangle or a star,
\* one backward foreign key (a second relation between the same two models),
\* one foreign key of a model to itself, and two many-to-many fields with
\* their intermediate model
N1 == Class("App", "App", "N1", "id")
N2 == Class("App", "App", "N2", "id")
N3 == Class("App", "App", "N3", "id")
N4 == Class("App", "App", "N4", "code")

Classes == {N1, N2, N3, N4}

Candidates ==
    << <<N1, FK("n2", N2)>>, <<N1, FK("n4", N4)>>,
       <<N2, FK("n3", N3)>>, <<N2, FK("n4", N4)>>, <<N3, O2O("n4", N4)>>,
       <<N2, FK("n1", N1)>>, <<N2, FK("self", N2)>>,
       <<N1, M2M("n4s", N4, N3)>>, <<N2, M2M("friends", N2, N4)>> >>

\* the fields of class c among the chosen candidates (a set of indices) that
\* are, or are not, many-to-many, in declaration order
FieldsOf(c, chosen, many) ==
    LET F[i \in 0..Len(Candidates)] ==
            IF i = 0 THEN << >>
            ELSE IF /\ i \in chosen
                    /\ Candidates[i][1] = c
                    /\ (Candidates[i][2].type = "ManyToManyField") = many
                 THEN Append(F[i - 1], Candidates[i][2])
                 ELSE F[i - 1]
    IN  F[Len(Candidates)]

Generated ==
    { { AppModel(c, FieldsOf(c, chosen, FALSE), FieldsOf(c, chosen, TRUE)) :
          c \in Classes } :
        chosen \in { x \in SUBSET (1..Len(Candidates)) :
                         Cardinality(x) <= MaxFields } }

Catalogues == {Shop, School, Shop \cup School} \cup Generated

\* the entity ids of a catalogue, as qbe_graph forms its keys
Id(cls) == <<cls.app, cls.name>>

-----------------------------------------------------------------------------
(* State machine *)

Models == qbe_models(app_models)

Init ==
    /\ app_models \in Catalogues
    /\ directed \in BOOLEAN
    /\ pc = "qbe_graph"
    /\ k = ""
    /\ todo = DOMAIN qbe_models(app_models)
    /\ graph = EmptyDict
    /\ root = NoneId
    /\ nodes = << >>
    /\ cnodes = << >>
    /\ to_visit = << >>
    /\ visited = {}
    /\ tree = EmptyDict
    /\ leafs = << >>
    /\ iterations = 0
    /\ required = << >>
    /\ roots = {}
    /\ forest = << >>
    /\ result = [op |-> "", raised |-> NoError, value |-> << >>]

\* qbe_graph, one pass of the inner loop: models.items() yields the apps in
\* any order and v.items() the models of one app in any order
qbe_graph_step ==
    /\ pc = "qbe_graph"
    /\ \E key \in next_keys(k, todo) :
        /\ k' = key[1]
        /\ todo' = todo \ {key}
        /\ graph' = graph_model(graph, key, Models[key], directed)
    /\ UNCHANGED <<app_models, directed, pc, root, nodes, cnodes,
                   to_visit, visited, tree, leafs, iterations, required,
                   roots, forest, result>>

\* qbe_graph: return graph
qbe_graph_return ==
    /\ pc = "qbe_graph"
    /\ todo = {}
    /\ pc' = "idle"
    /\ result' = [op |-> "qbe_graph", raised |-> NoError, value |-> << >>]
    /\ UNCHANGED <<app_models, directed, k, todo, graph, root, nodes,
                   cnodes, to_visit, visited, tree, leafs, iterations,
                   required, roots, forest>>

\* the entity ids a caller can name: those of the catalogue's models
Ids == { Id(m.cls) : m \in app_models }

\* the node lists handed to qbe_tree and qbe_forest: at most MaxRequired
\* distinct ids
NodeLists ==
    { CHOOSE o \in Orders(S) : TRUE :
        S \in { x \in SUBSET Ids : Cardinality(x) <= MaxRequired } }

\* the values of the POST key "models": at most MaxSelected ids joined by
\* commas, repeats allowed
Selections == UNION { [1..n -> Ids] : n \in 0..MaxSelected }

\* the requests qbe_autocomplete is called with: ajax or not, with an empty
\* POST, a POST without the key "models" or a POST with it
Requests ==
    [is_ajax : BOOLEAN,
     POST : {EmptyDict, [other |-> << >>]}
              \cup { [models |-> value] : value \in Selections }]

Locals == [nodes |-> nodes, to_visit |-> to_visit, visited |-> visited,
           tree |-> tree, raised |-> NoError]

\* qbe_tree(graph, nodes, root) called: lines 190-201; without a root the
\* start is drawn at random from nodes
qbe_tree_call ==
    /\ pc = "idle"
    /\ \E nodeList \in NodeLists, r \in Ids \cup {NoneId} :
        /\ root' = r
        /\ cnodes' = nodeList
        /\ nodes' = nodeList
        /\ visited' = {}
        /\ tree' = EmptyDict
        /\ IF TruthyId(r)
           THEN /\ to_visit' = tree_entry(r, nodeList).to_visit
                /\ pc' = "qbe_tree"
                /\ UNCHANGED result
           ELSE IF Len(nodeList) = 0
           THEN /\ to_visit' = << >>
                /\ pc' = "done"
                /\ result' = [op |-> "qbe_tree", raised |-> "ValueError",
                              value |-> << >>]
           ELSE \E index \in 1..Len(nodeList) :
                /\ to_visit' = tree_entry(nodeList[index], nodeList).to_visit
                /\ pc' = "qbe_tree"
                /\ UNCHANGED result
    /\ UNCHANGED <<app_models, directed, k, todo, graph, leafs, iterations,
                   required, roots, forest>>

\* one pass of the while loop of qbe_tree
qbe_tree_step ==
    /\ pc = "qbe_tree"
    /\ tree_continues(Locals)
    /\ LET st == tree_step(graph, Locals)
       IN  /\ nodes' = st.nodes
           /\ to_visit' = st.to_visit
           /\ visited' = st.visited
           /\ tree' = st.tree
           /\ IF st.raised # NoError
              THEN /\ pc' = "done"
                   /\ result' = [op |-> "qbe_tree", raised |-> st.raised,
                                 value |-> << >>]
              ELSE UNCHANGED <<pc, result>>
    /\ UNCHANGED <<app_models, directed, k, todo, graph, root, cnodes, leafs,
                   iterations, required, roots, forest>>

\* the while loop of qbe_tree is left and remove_leafs(tree, cnodes) entered
remove_leafs_call ==
    /\ pc = "qbe_tree"
    /\ ~tree_continues(Locals)
    /\ \E l \in Orders(get_leafs(tree, cnodes)) : leafs' = l
    /\ iterations' = 0
    /\ pc' = "remove_leafs"
    /\ UNCHANGED <<app_models, directed, k, todo, graph, root, nodes, cnodes,
                   to_visit, visited, tree, required, roots, forest, result>>

\* one pass of the while loop of remove_leafs
remove_leafs_step ==
    /\ pc = "remove_leafs"
    /\ leafs_continue(tree, leafs, iterations)
    /\ tree' = remove_leafs_pass(tree, leafs, 1)
    /\ \E l \in Orders(get_leafs(tree', cnodes)) : leafs' = l
    /\ iterations' = iterations + 0
    /\ UNCHANGED <<app_models, directed, pc, k, todo, graph, root, nodes,
                   cnodes, to_visit, visited, required, roots, forest, result>>

\* remove_leafs returns and qbe_tree returns tree, (len(nodes) == 0)
qbe_tree_return ==
    /\ pc = "remove_leafs"
    /\ ~leafs_continue(tree, leafs, iterations)
    /\ pc' = "done"
    /\ result' = [op |-> "qbe_tree", raised |-> NoError,
                  value |-> [tree |-> tree, are_all |-> Len(nodes) = 0]]
    /\ UNCHANGED <<app_models, directed, k, todo, graph, root, nodes, cnodes,
                   to_visit, visited, tree, leafs, iterations, required,
                   roots, forest>>

\* qbe_forest(graph, nodes) called
qbe_forest_call ==
    /\ pc = "idle"
    /\ \E nodeList \in NodeLists : required' = nodeList
    /\ roots' = DOMAIN graph
    /\ forest' = << >>
    /\ pc' = "qbe_forest"
    /\ UNCHANGED <<app_models, directed, k, todo, graph, root, nodes, cnodes,
                   to_visit, visited, tree, leafs, iterations, result>>

\* one pass of "for node, edges in graph.items()"
qbe_forest_step ==
    /\ pc = "qbe_forest"
    /\ \E node \in roots :
        \E out \in qbe_tree(graph, required, node) :
            /\ roots' = roots \ {node}
            /\ IF out.raised # NoError
               THEN /\ pc' = "done"
                    /\ result' = [op |-> "qbe_forest", raised |-> out.raised,
                                  value |-> << >>]
                    /\ UNCHANGED forest
               ELSE /\ forest' = forest_add(forest, out.tree, out.are_all)
                    /\ UNCHANGED <<pc, result>>
    /\ UNCHANGED <<app_models, directed, k, todo, graph, root, nodes, cnodes,
                   to_visit, visited, tree, leafs, iterations, required>>

\* qbe_forest returns the sorted forest
qbe_forest_return ==
    /\ pc = "qbe_forest"
    /\ roots = {}
    /\ pc' = "done"
    /\ result' = [op |-> "qbe_forest", raised |-> NoError,
                  value |-> sorted_by_len(forest, Len(forest))]
    /\ UNCHANGED <<app_models, directed, k, todo, graph, root, nodes, cnodes,
                   to_visit, visited, tree, leafs, iterations, required,
                   roots, forest>>

\* find_all_paths(graph, start, end) called on the built graph
find_all_paths_call ==
    /\ pc = "idle"
    /\ \E start \in Ids, end \in Ids :
        LET out == find_all_paths(graph, start, end, << >>)
        IN  result' = [op |-> "find_all_paths", raised |-> out.raised,
                       value |-> out.value, start |-> start, end |-> end]
    /\ pc' = "done"
    /\ UNCHANGED <<app_models, directed, k, todo, graph, root, nodes, cnodes,
                   to_visit, visited, tree, leafs, iterations, required,
                   roots, forest>>

\* the view qbe_autocomplete(request): nodes stays None unless the request is
\* ajax with a non-empty POST; a POST without "models" makes line 159 call
\* split on the default [], which a list does not have; autocomplete_graph is
\* called with the default directed=False and builds its own graph; the
\* response body is dumps(nodes)
qbe_autocomplete ==
    /\ pc = "idle"
    /\ \E request \in Requests :
        IF request.is_ajax /\ DOMAIN request.POST # {}
        THEN IF "models" \notin DOMAIN request.POST
             THEN result' = [op |-> "qbe_autocomplete",
                             raised |-> "AttributeError", value |-> PyNone,
                             body |-> "", request |-> request]
             ELSE \E out \in autocomplete_graph(
                                 Models, split(request.POST.models), FALSE) :
                     result' = [op |-> "qbe_autocomplete",
                                raised |-> out.raised, value |-> out.value,
                                body |-> IF out.raised = NoError
                                         THEN dumps(out.value) ELSE "",
                                request |-> request]
        ELSE result' = [op |-> "qbe_autocomplete", raised |-> NoError,
                        value |-> PyNone, body |-> dumps(PyNone),
                        request |-> request]
    /\ pc' = "done"
    /\ UNCHANGED <<app_models, directed, k, todo, graph, root, nodes, cnodes,
                   to_visit, visited, tree, leafs, iterations, required,
                   roots, forest>>

Next ==
    \/ qbe_graph_step
    \/ qbe_graph_return
    \/ qbe_tree_call
    \/ qbe_tree_step
    \/ remove_leafs_call
    \/ remove_leafs_step
    \/ qbe_tree_return
    \/ qbe_forest_call
    \/ qbe_forest_step
    \/ qbe_forest_return
    \/ find_all_paths_call
    \/ qbe_autocomplete

Spec == Init /\ [][Next]_vars

\* the graph builder followed by one call of qbe_tree
TreeNext ==
    \/ qbe_graph_step
    \/ qbe_graph_return
    \/ qbe_tree_call
    \/ qbe_tree_step
    \/ remove_leafs_call
    \/ remove_leafs_step
    \/ qbe_tree_return

\* the statements of a running qbe_tree call
TreeRun ==
    \/ qbe_tree_step
    \/ remove_leafs_call
    \/ remove_leafs_step
    \/ qbe_tree_return

\* the code is sequential: a running qbe_tree always takes its next step
TreeSpec ==
    /\ Init
    /\ [][TreeNext]_vars
    /\ WF_vars(TreeRun)

-----------------------------------------------------------------------------
(* Vocabulary of the properties *)

\* qbe_graph has returned: graph is the built Graph
GraphBuilt == pc # "qbe_graph"

\* the edges listed under a node, as a set
EdgesOf(g, n) == IF n \in DOMAIN g THEN Range(g[n]) ELSE {}

Neighbors(g, n) == { e[2] : e \in EdgesOf(g, n) }

\* the nodes reachable from the set S along edges of g
RECURSIVE Reach(_, _)
Reach(g, S) ==
    LET S1 == S \cup UNION { Neighbors(g, n) : n \in S }
    IN  IF S1 = S THEN S ELSE Reach(g, S1)

Component(g, n) == Reach(g, {n})

Components(g) == { Component(g, n) : n \in DOMAIN g }

\* how often x occurs in lst
Count(lst, x) == Cardinality({ i \in 1..Len(lst) : lst[i] = x })

-----------------------------------------------------------------------------
(* C1 *)

\* C1: in a graph built in undirected mode, every edge (f, B, g) stored under
\* entity A has the mirror edge (g, A, f) stored under B, also for relations
\* that go through an intermediate entity.
C1_MirrorEdges ==
    (GraphBuilt /\ ~directed) =>
        \A A \in DOMAIN graph : \A e \in EdgesOf(graph, A) :
            <<e[3], A, e[1]>> \in EdgesOf(graph, e[2])

-----------------------------------------------------------------------------
(* C2 *)

\* C2: selecting {Customer, Product} in the order scenario, autocomplete_graph
\* on the graph qbe_graph builds returns normally and its first suggestion is
\* [Order, OrderItem] or [OrderItem, Order].
C2_ShopSuggestion ==
    (/\ pc = "done"
     /\ result.op = "qbe_autocomplete"
     /\ app_models = Shop
     /\ result.request.is_ajax
     /\ result.request.POST = [models |-> <<Id(Customer), Id(Product)>>]) =>
        /\ result.raised = NoError
        /\ ~result.value.none
        /\ Len(result.value.list) >= 1
        /\ result.value.list[1] \in { <<Id(Order), Id(OrderItem)>>,
                                       <<Id(OrderItem), Id(Order)>> }

-----------------------------------------------------------------------------
(* C3 *)

\* the simple paths from start to end along the edges of g
SimplePaths(g, start, end) ==
    { p \in UNION { Orders(S) : S \in SUBSET (DOMAIN g \cup {start, end}) } :
        /\ Len(p) >= 1
        /\ p[1] = start
        /\ p[Len(p)] = end
        /\ \A i \in 1..(Len(p) - 1) : p[i + 1] \in Neighbors(g, p[i]) }

\* C3: on a graph in the shape the builder produces, find_all_paths returns
\* exactly the simple paths from start to end along graph edges, each once,
\* and find_all_paths(g, a, a) is exactly [[a]].
C3_AllSimplePaths ==
    (pc = "done" /\ result.op = "find_all_paths") =>
        /\ result.raised = NoError
        /\ Range(result.value) = SimplePaths(graph, result.start, result.end)
        /\ \A p \in Range(result.value) : Count(result.value, p) = 1
        /\ result.start = result.end => result.value = << <<result.start>> >>

-----------------------------------------------------------------------------
(* C4 *)

\* a qbe_forest call on an undirected graph has returned
ForestReturned ==
    pc = "done" /\ result.op = "qbe_forest" /\ result.raised = NoError
    /\ ~directed

\* C4: every Tree of the forest qbe_forest returns for an undirected graph
\* has a key set that is a superset of the required nodes.
C4_ForestCoversRequired ==
    ForestReturned =>
        \A i \in 1..Len(result.value) :
            Range(required) \subseteq DOMAIN result.value[i]

-----------------------------------------------------------------------------
(* C5 *)

\* there are required nodes, all of them graph nodes of one connected
\* component
RequiredConnected ==
    /\ Len(required) >= 1
    /\ Range(required) \subseteq DOMAIN graph
    /\ \A a, b \in Range(required) : b \in Component(graph, a)

\* C5: for an undirected graph whose required nodes are graph nodes lying in
\* one connected component, qbe_forest returns at least one Tree.
C5_ConnectedGivesTree ==
    (ForestReturned /\ RequiredConnected) => Len(result.value) >= 1

-----------------------------------------------------------------------------
(* C6 *)

\* the graph has two connected components and the required set has a node
\* of each
RequiredSpansTwoComponents ==
    /\ Cardinality(Components(graph)) = 2
    /\ \A C \in Components(graph) : Range(required) \cap C # {}

\* C6: for an undirected graph with two disjoint connected components and a
\* required set with a node of each, no root's extraction reports that all
\* required nodes were reached, and qbe_forest returns the empty list
\* without raising.
C6_DisconnectedGivesEmptyForest ==
    (/\ pc = "qbe_forest" \/ (pc = "done" /\ result.op = "qbe_forest")
     /\ ~directed
     /\ RequiredSpansTwoComponents) =>
        /\ forest = << >>
        /\ pc = "done" => result.raised = NoError /\ result.value = << >>

\* a forest over two components, one of which has a node the traversal
\* expands, has been returned
C6_Witness ==
    /\ ForestReturned
    /\ RequiredSpansTwoComponents
    /\ \E n \in DOMAIN graph : Len(graph[n]) > 1
    /\ result.value = << >>

-----------------------------------------------------------------------------
(* C7 *)

\* C7: when the given root is not a key of the graph, qbe_tree returns an
\* empty Tree with allReached = false instead of raising.
C7_AbsentRootGivesEmptyTree ==
    (/\ pc = "done"
     /\ result.op = "qbe_tree"
     /\ TruthyId(root)
     /\ root \notin DOMAIN graph) =>
        /\ result.raised = NoError
        /\ result.value.tree = EmptyDict
        /\ result.value.are_all = FALSE

-----------------------------------------------------------------------------
(* C8 *)

\* the relations of the catalogue's models that carry a through entity, as
\* <<key of the model, relation>>
ThroughRelations ==
    { kr \in UNION { { <<key, r>> : r \in Range(Models[key].relations) } :
                       key \in DOMAIN Models } :
        "through" \in DOMAIN kr[2].target }

\* an edge of either direction joins a and b
Adjacent(g, a, b) == b \in Neighbors(g, a) \/ a \in Neighbors(g, b)

\* C8: for a relation whose target carries a through entity, the graph has
\* the source's edge to the through entity and no direct edge between the
\* source and the logical target for that relation; in the many-to-many
\* scenario Enrollment is a node adjacent to Student and to Course, and
\* Student and Course are not adjacent.
C8_ThroughIsRouted ==
    GraphBuilt =>
        /\ \A kr \in ThroughRelations :
            LET key == kr[1]
                source == kr[2].source
                target == kr[2].target
                via == <<target.through.name, target.through.model>>
                to == <<target.name, target.model>>
            IN  /\ <<source, via, target.through.field>> \in EdgesOf(graph, key)
                /\ to # via =>
                    /\ \A e \in EdgesOf(graph, key) :
                           ~(e[1] = source /\ e[2] = to)
                    /\ \A e \in EdgesOf(graph, to) :
                           ~(e[2] = key /\ e[3] = source)
        /\ app_models = School =>
            /\ Id(Enrollment) \in DOMAIN graph
            /\ Adjacent(graph, Id(Enrollment), Id(Student))
            /\ Adjacent(graph, Id(Enrollment), Id(Course))
            /\ ~Adjacent(graph, Id(Student), Id(Course))

\* the graph of the many-to-many scenario has been built, undirected
C8_Witness ==
    /\ pc = "idle"
    /\ app_models = School
    /\ ~directed
    /\ ThroughRelations # {}
    /\ {Id(Student), Id(Course), Id(Enrollment)} \subseteq DOMAIN graph

-----------------------------------------------------------------------------
(* C9 *)

\* qbe_tree, called on an undirected graph with a root that is a graph key,
\* has returned
TreeReturned ==
    /\ pc = "done"
    /\ result.op = "qbe_tree"
    /\ result.raised = NoError
    /\ ~directed
    /\ root \in DOMAIN graph

\* C9: the returned Tree has only graph keys as nodes, and every node of it
\* outside the original required set has at least 2 recorded edges, each to
\* a node still in the Tree.
C9_PrunedTree ==
    TreeReturned =>
        LET t == result.value.tree
        IN  /\ DOMAIN t \subseteq DOMAIN graph
            /\ \A n \in DOMAIN t \ Range(cnodes) :
                /\ Len(t[n]) >= 2
                /\ \A e \in Range(t[n]) : e[2] \in DOMAIN t

\* a returned Tree keeps a non-required inner node after remove_leafs dropped
\* a node the traversal had recorded
C9_Witness ==
    /\ TreeReturned
    /\ \E n \in DOMAIN result.value.tree : ~Contains(cnodes, n)
    /\ \E n \in visited : n \notin DOMAIN result.value.tree

-----------------------------------------------------------------------------
(* C10 *)

\* C10: the returned Tree is connected and cycle-free over its nodes: every
\* recorded edge (f, B, g) under A has exactly one mirror (g, A, f) under B,
\* any two nodes are joined by recorded edges, and a non-empty Tree has one
\* fewer undirected edge than nodes.
C10_TreeShape ==
    TreeReturned =>
        LET t == result.value.tree
            halfEdges == UNION { { <<n, i>> : i \in 1..Len(t[n]) } :
                                   n \in DOMAIN t }
        IN  /\ \A A \in DOMAIN t : \A e \in Range(t[A]) :
                /\ e[2] \in DOMAIN t
                /\ Count(t[e[2]], <<e[3], A, e[1]>>) = 1
            /\ \A a \in DOMAIN t : Component(t, a) = DOMAIN t
            /\ DOMAIN t # {} =>
                Cardinality(halfEdges) = 2 * (Cardinality(DOMAIN t) - 1)

\* a Tree of at least three nodes has been returned
C10_Witness ==
    /\ TreeReturned
    /\ Cardinality(DOMAIN result.value.tree) >= 3

-----------------------------------------------------------------------------
(* C11 *)

\* a qbe_tree call on an undirected graph with a root that is a graph key
TreeCallInScope == ~directed /\ root \in DOMAIN graph

\* C11: for an undirected graph and a root that is a graph key, qbe_tree
\* terminates: a pass of the traversal loop that pushes edges expands a node
\* that was not visited before; the bound disjunct of the remove_leafs loop
\* (iterations > len(tree) ^ 2) is never true, the counter staying 0; every
\* pass of the remove_leafs loop deletes at least one node of the tree; and
\* every started call returns.
C11_Terminates ==
    /\ [][(pc = "qbe_tree" /\ TreeCallInScope
             /\ Len(to_visit') > Len(to_visit)) =>
            /\ to_visit[Len(to_visit)][3] \notin visited
            /\ visited' = visited \cup {to_visit[Len(to_visit)][3]}]_vars
    /\ []((pc = "remove_leafs" /\ TreeCallInScope) =>
            /\ iterations = 0
            /\ ~(iterations > BitXor(Cardinality(DOMAIN tree), 2)))
    /\ [][(pc = "remove_leafs" /\ pc' = "remove_leafs" /\ TreeCallInScope) =>
            /\ Len(leafs) # 0
            /\ Cardinality(DOMAIN tree') < Cardinality(DOMAIN tree)]_vars
    /\ (pc \in {"qbe_tree", "remove_leafs"} /\ TreeCallInScope) ~>
            (pc = "done" /\ result.op = "qbe_tree" /\ result.raised = NoError)

\* a call has returned after the traversal expanded at least three nodes and
\* remove_leafs deleted at least two of the recorded ones
C11_Witness ==
    /\ TreeReturned
    /\ Cardinality(visited) >= 3
    /\ Cardinality(visited \ DOMAIN result.value.tree) >= 2

=============================================================================
